---- MODULE Spec2Model ----
(***************************************************************************)
(* Rule evaluation of the financial-flags program: rules.py (entry         *)
(* selector, accessors, classifiers) and app.py (probe_model_5l_profit).   *)
(*                                                                         *)
(* Python mappings are functions whose DOMAIN is the set of keys present,  *)
(* so an absent key is a key outside DOMAIN.  Lists are sequences; the     *)
(* Python index i is the sequence position i + 1.  Numbers are exact       *)
(* rationals [num, den] with den > 0; on the integer inputs drawn here     *)
(* Python's true division compares with 0.25 and 2 exactly as the          *)
(* rational does.  A call either returns a value or raises an exception.  *)
(***************************************************************************)
EXTENDS Integers, Sequences, FiniteSets, TLC

VARIABLES data, arg, pc, locals, exc, result, ret, calls, seen

vars == <<data, arg, pc, locals, exc, result, ret, calls, seen>>

(***************************************************************************)
(* Bounds                                                                  *)
(***************************************************************************)
MaxLen == 3
MaxCalls == 3

(***************************************************************************)
(* class FLAGS                                                             *)
(***************************************************************************)
GREEN == 1
AMBER == 2
RED == 0
MEDIUM_RISK == 3
WHITE == 4

FiveCr == 50000000

(***************************************************************************)
(* Numbers                                                                 *)
(***************************************************************************)
Num(n) == [num |-> n, den |-> 1]
Zero == Num(0)
Quarter == [num |-> 1, den |-> 4]
TrueDiv(a, b) == IF b > 0 THEN [num |-> a, den |-> b] ELSE [num |-> -a, den |-> -b]
NumLeq(x, y) == x.num * y.den <= y.num * x.den
NumEq(x, y) == x.num * y.den = y.num * x.den

(***************************************************************************)
(* Outcomes of a call                                                      *)
(***************************************************************************)
Return(v) == [exc |-> "None", val |-> v]
Raise(e) == [exc |-> e]
Returned(o) == o.exc = "None"

(***************************************************************************)
(* The empty mapping {}                                                    *)
(***************************************************************************)
EmptyMap == [k \in {} |-> 0]

(***************************************************************************)
(* dict.get(key, default)                                                  *)
(***************************************************************************)
Get(m, k, default) == IF k \in DOMAIN m THEN m[k] ELSE default

(***************************************************************************)
(* data["financials"][financial_index]["lineItems"][section]               *)
(***************************************************************************)
Section(d, i, s) ==
    IF "financials" \notin DOMAIN d THEN Raise("KeyError")
    ELSE IF i + 1 > Len(d.financials) THEN Raise("IndexError")
    ELSE LET e == d.financials[i + 1] IN
         IF "lineItems" \notin DOMAIN e THEN Raise("KeyError")
         ELSE IF s \notin DOMAIN e.lineItems THEN Raise("KeyError")
         ELSE Return(e.lineItems[s])

(***************************************************************************)
(* rules.py                                                                *)
(***************************************************************************)
RECURSIVE FirstStandalone(_, _)
FirstStandalone(fs, k) ==
    IF k > Len(fs) THEN 0
    ELSE IF "nature" \in DOMAIN fs[k] /\ fs[k].nature = "STANDALONE" THEN k - 1
    ELSE FirstStandalone(fs, k + 1)

\* the loop without its early return: the last standalone entry wins
RECURSIVE LastStandalone(_, _)
LastStandalone(fs, k) ==
    IF k < 1 THEN 0
    ELSE IF "nature" \in DOMAIN fs[k] /\ fs[k].nature = "STANDALONE" THEN k - 1
    ELSE LastStandalone(fs, k - 1)

latest_financial_index_last(d) ==
    IF "financials" \notin DOMAIN d THEN Raise("TypeError")
    ELSE Return(LastStandalone(d.financials, Len(d.financials)))

latest_financial_index(d) ==
    IF "financials" \notin DOMAIN d THEN Raise("TypeError")
    ELSE Return(FirstStandalone(d.financials, 1))

total_revenue(d, i) ==
    LET pnl == Section(d, i, "pnl") IN
    IF pnl.exc = "KeyError" THEN Return(Zero)
    ELSE IF ~Returned(pnl) THEN pnl
    ELSE IF "netRevenue" \notin DOMAIN pnl.val THEN Return(Zero)
    ELSE Return(Num(pnl.val.netRevenue))

total_borrowing(d, i) ==
    LET bs == Section(d, i, "bs") IN
    IF bs.exc = "KeyError" THEN Return(Zero)
    ELSE IF ~Returned(bs) THEN bs
    ELSE LET long_term_borrowings == Get(bs.val, "longTermBorrowings", 0)
             short_term_borrowings == Get(bs.val, "shortTermBorrowings", 0)
             total_borrowings == long_term_borrowings + short_term_borrowings
             total_rev == total_revenue(d, i)
         IN  IF ~Returned(total_rev) THEN total_rev
             ELSE IF total_rev.val.num # 0
                  THEN Return(TrueDiv(total_borrowings * total_rev.val.den,
                                      total_rev.val.num))
                  ELSE Return(Zero)

\* missing sections read as empty mappings instead of being caught
iscr_default_sections(d, i) ==
    LET pnl == Section(d, i, "pnl")
        bs == Section(d, i, "bs")
    IN  IF pnl.exc = "IndexError" THEN pnl
        ELSE LET p == IF Returned(pnl) THEN pnl.val ELSE EmptyMap
                 b == IF Returned(bs) THEN bs.val ELSE EmptyMap
                 pbitda == Get(p,
                     "profitBeforeInterestAndTaxAndDepreciationAndAmortization", 0)
                 interest_expenses == Get(b, "interestExpenses", 0)
             IN  IF interest_expenses + 1 = 0 THEN Raise("ZeroDivisionError")
                 ELSE Return(TrueDiv(pbitda + 1, interest_expenses + 1))

iscr(d, i) ==
    LET pnl == Section(d, i, "pnl")
        bs == Section(d, i, "bs")
    IN  IF pnl.exc = "KeyError" THEN Return(Zero)
        ELSE IF ~Returned(pnl) THEN pnl
        ELSE IF bs.exc = "KeyError" THEN Return(Zero)
        ELSE IF ~Returned(bs) THEN bs
        ELSE LET pbitda == Get(pnl.val,
                     "profitBeforeInterestAndTaxAndDepreciationAndAmortization", 0)
                 interest_expenses == Get(bs.val, "interestExpenses", 0)
             IN  IF interest_expenses + 1 = 0 THEN Raise("ZeroDivisionError")
                 ELSE Return(TrueDiv(pbitda + 1, interest_expenses + 1))

iscr_flag(d, i) ==
    LET iscr_value == iscr(d, i) IN
    IF ~Returned(iscr_value) THEN iscr_value
    ELSE IF NumLeq(Num(2), iscr_value.val) THEN Return(GREEN)
    ELSE Return(RED)

\* the threshold taken as exclusive
total_revenue_5cr_flag_exclusive(d, i) ==
    LET total_rev == total_revenue(d, i) IN
    IF ~Returned(total_rev) THEN total_rev
    ELSE IF ~NumLeq(total_rev.val, Num(FiveCr)) THEN Return(GREEN)
    ELSE Return(RED)

total_revenue_5cr_flag(d, i) ==
    LET total_rev == total_revenue(d, i) IN
    IF ~Returned(total_rev) THEN total_rev
    ELSE IF NumLeq(Num(FiveCr), total_rev.val) THEN Return(GREEN)
    ELSE Return(RED)

\* the threshold taken as exclusive
borrowing_to_revenue_flag_exclusive(d, i) ==
    LET borrowing_to_revenue_ratio == total_borrowing(d, i) IN
    IF ~Returned(borrowing_to_revenue_ratio) THEN borrowing_to_revenue_ratio
    ELSE IF ~NumLeq(Quarter, borrowing_to_revenue_ratio.val) THEN Return(GREEN)
    ELSE Return(AMBER)

borrowing_to_revenue_flag(d, i) ==
    LET borrowing_to_revenue_ratio == total_borrowing(d, i) IN
    IF ~Returned(borrowing_to_revenue_ratio) THEN borrowing_to_revenue_ratio
    ELSE IF NumLeq(borrowing_to_revenue_ratio.val, Quarter) THEN Return(GREEN)
    ELSE Return(AMBER)

(***************************************************************************)
(* Input records                                                           *)
(***************************************************************************)
Opt(S) == {<<>>} \cup {<<v>> : v \in S}
MkMap(o) == [k \in {x \in DOMAIN o : o[x] # <<>>} |-> o[k][1]]
Bind(m, k, v) == [x \in DOMAIN m \cup {k} |-> IF x = k THEN v ELSE m[x]]
SeqsUpTo(S, n) == UNION {[1..k -> S] : k \in 0..n}

Natures == {"STANDALONE", "CONSOLIDATED"}
NetRevenues == {-100, 0, 99, 100, 49999999, 50000000}
Pbitdas == {-5, 0, 3}
LongTerms == {10}
ShortTerms == {15, 40}
InterestExpenses == {-3, -1, 1}

Pnls ==
    {MkMap([netRevenue |-> nr,
            profitBeforeInterestAndTaxAndDepreciationAndAmortization |-> pb]) :
        nr \in Opt(NetRevenues), pb \in Opt(Pbitdas)}
Bss ==
    {MkMap([longTermBorrowings |-> lt, shortTermBorrowings |-> st,
            interestExpenses |-> ie]) :
        lt \in Opt(LongTerms), st \in Opt(ShortTerms), ie \in Opt(InterestExpenses)}
LineItems == {MkMap([pnl |-> p, bs |-> b]) : p \in Opt(Pnls), b \in Opt(Bss)}

GreenItems ==
    [pnl |-> [netRevenue |-> 50000000,
              profitBeforeInterestAndTaxAndDepreciationAndAmortization |-> 3],
     bs |-> [longTermBorrowings |-> 10, shortTermBorrowings |-> 15,
             interestExpenses |-> 1]]
AmberItems ==
    [pnl |-> [netRevenue |-> 99,
              profitBeforeInterestAndTaxAndDepreciationAndAmortization |-> 0],
     bs |-> [longTermBorrowings |-> 10, shortTermBorrowings |-> 15,
             interestExpenses |-> 1]]

\* entries that vary every field of one filing
DetailEntries ==
    {MkMap([nature |-> n, lineItems |-> l]) :
        n \in Opt(Natures), l \in Opt(LineItems)}
\* entries that vary the nature, for records of several filings
ShapeEntries ==
    {MkMap([nature |-> n, lineItems |-> <<l>>]) :
        n \in Opt(Natures), l \in {GreenItems, AmberItems, EmptyMap}}

Records ==
    {EmptyMap}
    \cup {[financials |-> f] : f \in SeqsUpTo(ShapeEntries, MaxLen)}
    \cup {[financials |-> <<e>>] : e \in DetailEntries}

\* records of the calls that come between two calls on the same record
OtherRecords ==
    {EmptyMap,
     [financials |-> <<>>],
     [financials |-> <<[nature |-> "STANDALONE", lineItems |-> GreenItems]>>],
     [financials |-> <<[nature |-> "CONSOLIDATED", lineItems |-> AmberItems]>>]}

Indices == 0..MaxLen

(***************************************************************************)
(* State                                                                   *)
(***************************************************************************)
NoCall == [fn |-> "none"]
NotSeen == [set |-> FALSE]

Init ==
    /\ data \in Records
    /\ arg = data
    /\ pc = "start"
    /\ locals = EmptyMap
    /\ exc = "None"
    /\ result = EmptyMap
    /\ ret = NoCall
    /\ calls = 1
    /\ seen = NotSeen

(***************************************************************************)
(* app.py: probe_model_5l_profit, one action per statement                 *)
(***************************************************************************)
\* a statement  name = call(...)  of the orchestrator
Assign(from, to, name, o) ==
    /\ pc = from
    /\ IF Returned(o)
       THEN /\ pc' = to
            /\ locals' = Bind(locals, name, o.val)
            /\ exc' = exc
       ELSE /\ pc' = "raised"
            /\ locals' = locals
            /\ exc' = o.exc
    /\ UNCHANGED <<data, arg, result, ret, calls, seen>>

\* line 12 with data.setdefault("financials", []) in place of data.get
SelectIndex_setdefault ==
    /\ pc = "start"
    /\ data' = IF "financials" \in DOMAIN data THEN data
               ELSE [financials |-> <<>>]
    /\ pc' = "line14"
    /\ locals' = Bind(locals, "lastest_financial_index_value",
                      latest_financial_index(data').val)
    /\ UNCHANGED <<arg, exc, result, ret, calls, seen>>

SelectIndex ==
    Assign("start", "line14", "lastest_financial_index_value",
           latest_financial_index(data))

RevenueFlag ==
    Assign("line14", "line18", "total_revenue_5cr_flag_value",
           total_revenue_5cr_flag(data, locals["lastest_financial_index_value"]))

BorrowingFlag ==
    Assign("line18", "line22", "borrowing_to_revenue_flag_value",
           borrowing_to_revenue_flag(data, locals["lastest_financial_index_value"]))

IscrFlag ==
    Assign("line22", "line24", "iscr_flag_value",
           iscr_flag(data, locals["lastest_financial_index_value"]))

ReturnFlags ==
    /\ pc = "line24"
    /\ pc' = "done"
    /\ result' = [flags |->
                     [TOTAL_REVENUE_5CR_FLAG |-> locals["total_revenue_5cr_flag_value"],
                      BORROWING_TO_REVENUE_FLAG |-> locals["borrowing_to_revenue_flag_value"],
                      ISCR_FLAG |-> locals["iscr_flag_value"]]]
    /\ UNCHANGED <<data, arg, locals, exc, ret, calls, seen>>

(***************************************************************************)
(* A further call of probe_model_5l_profit, on the same or another record  *)
(***************************************************************************)
NewCall ==
    /\ pc \in {"done", "raised"}
    /\ calls < MaxCalls
    /\ \E r \in {arg} \cup OtherRecords \cup (IF seen.set THEN {seen.rec} ELSE {}) :
          /\ data' = r
          /\ arg' = r
          /\ seen' = IF seen.set
                     THEN [seen EXCEPT !.other = @ \/ r # seen.rec]
                     ELSE [set |-> TRUE, rec |-> arg, exc |-> exc,
                           result |-> result, other |-> r # arg]
    /\ pc' = "start"
    /\ locals' = EmptyMap
    /\ exc' = "None"
    /\ result' = EmptyMap
    /\ calls' = calls + 1
    /\ UNCHANGED ret

(***************************************************************************)
(* rules.py: a direct call of one function on the record and an index      *)
(***************************************************************************)
Call(fn, i, o) ==
    /\ pc = "start"
    /\ pc' = "called"
    /\ ret' = [fn |-> fn, i |-> i, out |-> o]
    /\ UNCHANGED <<data, arg, locals, exc, result, calls, seen>>

Call_latest_financial_index ==
    Call("latest_financial_index", 0, latest_financial_index(data))
Call_total_revenue ==
    \E i \in Indices : Call("total_revenue", i, total_revenue(data, i))
Call_total_borrowing ==
    \E i \in Indices : Call("total_borrowing", i, total_borrowing(data, i))
Call_iscr ==
    \E i \in Indices : Call("iscr", i, iscr(data, i))
Call_iscr_flag ==
    \E i \in Indices : Call("iscr_flag", i, iscr_flag(data, i))
Call_total_revenue_5cr_flag ==
    \E i \in Indices :
        Call("total_revenue_5cr_flag", i, total_revenue_5cr_flag(data, i))
Call_borrowing_to_revenue_flag ==
    \E i \in Indices :
        Call("borrowing_to_revenue_flag", i, borrowing_to_revenue_flag(data, i))

Next ==
    \/ SelectIndex
    \/ RevenueFlag
    \/ BorrowingFlag
    \/ IscrFlag
    \/ ReturnFlags
    \/ Call_latest_financial_index
    \/ Call_total_revenue
    \/ Call_total_borrowing
    \/ Call_iscr
    \/ Call_iscr_flag
    \/ Call_total_revenue_5cr_flag
    \/ Call_borrowing_to_revenue_flag

Spec == Init /\ [][Next]_vars

NextCalls ==
    \/ SelectIndex
    \/ RevenueFlag
    \/ BorrowingFlag
    \/ IscrFlag
    \/ ReturnFlags
    \/ NewCall

SpecCalls == Init /\ [][NextCalls]_vars

(***************************************************************************)
(* What the specification says of an entry, stated on the entry's fields   *)
(***************************************************************************)
Terminated == pc \in {"done", "raised"}
FlagNames == {"TOTAL_REVENUE_5CR_FLAG", "BORROWING_TO_REVENUE_FLAG", "ISCR_FLAG"}

HasFinancials(d) == "financials" \in DOMAIN d
EntryExists(d, i) == HasFinancials(d) /\ i >= 0 /\ i < Len(d.financials)
EntryAt(d, i) == d.financials[i + 1]

IsStandalone(e) == "nature" \in DOMAIN e /\ e.nature = "STANDALONE"
StandaloneIndices(d) ==
    {i \in 0..(Len(d.financials) - 1) : IsStandalone(EntryAt(d, i))}
\* the smallest index of a standalone entry, 0 when there is none
FirstStandaloneIndex(d) ==
    IF StandaloneIndices(d) = {} THEN 0
    ELSE CHOOSE i \in StandaloneIndices(d) : \A j \in StandaloneIndices(d) : i <= j

HasItems(e) == "lineItems" \in DOMAIN e
HasSection(e, s) == HasItems(e) /\ s \in DOMAIN e.lineItems
HasField(e, s, f) == HasSection(e, s) /\ f \in DOMAIN e.lineItems[s]
FieldOr0(e, s, f) == IF HasField(e, s, f) THEN e.lineItems[s][f] ELSE 0

NetRevenueOf(e) == FieldOr0(e, "pnl", "netRevenue")
BorrowingsOf(e) ==
    FieldOr0(e, "bs", "longTermBorrowings") + FieldOr0(e, "bs", "shortTermBorrowings")
PbitdaOf(e) ==
    FieldOr0(e, "pnl", "profitBeforeInterestAndTaxAndDepreciationAndAmortization")
InterestOf(e) == FieldOr0(e, "bs", "interestExpenses")

\* b / r <= 1/4 for r # 0
RatioAtMostQuarter(b, r) == IF r > 0 THEN 4 * b <= r ELSE 4 * b >= r
\* p / q >= 2 for q # 0
RatioAtLeastTwo(p, q) == IF q > 0 THEN p >= 2 * q ELSE p <= 2 * q

BorrowingFlagOf(e) ==
    IF ~HasSection(e, "bs") \/ NetRevenueOf(e) = 0 THEN GREEN
    ELSE IF RatioAtMostQuarter(BorrowingsOf(e), NetRevenueOf(e)) THEN GREEN
    ELSE AMBER

IscrFlagOf(e) ==
    IF /\ HasSection(e, "pnl")
       /\ HasSection(e, "bs")
       /\ InterestOf(e) + 1 # 0
       /\ RatioAtLeastTwo(PbitdaOf(e) + 1, InterestOf(e) + 1)
    THEN GREEN
    ELSE RED

RevenueFlagOf(e) == IF NetRevenueOf(e) >= 50000000 THEN GREEN ELSE RED

Called(fn) == pc = "called" /\ ret.fn = fn
Bound(name) == name \in DOMAIN locals
SelectedIndex == locals["lastest_financial_index_value"]

(***************************************************************************)
(* C1                                                                      *)
(***************************************************************************)
\* C1: for every record probe_model_5l_profit returns a mapping with the
\* single key "flags" whose value has exactly the three flag keys, each
\* holding RED, GREEN or AMBER; MEDIUM_RISK and WHITE never appear.
C1_AlwaysThreeFlags ==
    Terminated =>
        /\ pc = "done"
        /\ DOMAIN result = {"flags"}
        /\ DOMAIN result.flags = FlagNames
        /\ \A k \in FlagNames : result.flags[k] \in {RED, GREEN, AMBER}

(***************************************************************************)
(* C2                                                                      *)
(***************************************************************************)
\* C2: the core raises no error for any mapping: the call completes with a
\* full set of three flags, also for the empty mapping and for an empty
\* "financials" sequence.
C2_NoErrorRaised ==
    /\ exc = "None"
    /\ pc # "raised"
    /\ (~HasFinancials(arg) \/ arg = [financials |-> <<>>]) /\ pc = "done"
          => DOMAIN result.flags = FlagNames

(***************************************************************************)
(* C3                                                                      *)
(***************************************************************************)
\* C3: on a record with a "financials" sequence latest_financial_index
\* returns the smallest index of an entry whose nature is "STANDALONE",
\* and 0 when no entry has that nature or the sequence is empty.
C3_FirstStandalone ==
    /\ Called("latest_financial_index") /\ HasFinancials(data)
          => /\ Returned(ret.out)
             /\ ret.out.val = FirstStandaloneIndex(data)
    /\ Bound("lastest_financial_index_value")
          => SelectedIndex = FirstStandaloneIndex(data)

C3_Witness ==
    /\ Called("latest_financial_index")
    /\ HasFinancials(data)
    /\ Len(data.financials) = 3
    /\ ~IsStandalone(data.financials[1])
    /\ IsStandalone(data.financials[2])
    /\ IsStandalone(data.financials[3])
    /\ ret.out = Return(1)

(***************************************************************************)
(* C4                                                                      *)
(***************************************************************************)
\* C4: total_revenue(data, i) returns pnl.netRevenue of entry i when it is
\* present and 0.0 when the entry, lineItems, pnl or netRevenue is missing;
\* no lookup failure is surfaced as an error.
C4_TotalRevenueNeverRaises ==
    Called("total_revenue") =>
        /\ Returned(ret.out)
        /\ NumEq(ret.out.val,
                 Num(IF EntryExists(data, ret.i)
                     THEN NetRevenueOf(EntryAt(data, ret.i)) ELSE 0))

(***************************************************************************)
(* C5                                                                      *)
(***************************************************************************)
\* C5: for an existing entry whose lineItems is the empty mapping,
\* total_revenue, total_borrowing and iscr each return 0.0, and when that
\* entry is the selected one the orchestrator returns the flags RED, GREEN, RED.
C5_EmptyLineItems ==
    /\ (/\ pc = "called"
        /\ ret.fn \in {"total_revenue", "total_borrowing", "iscr"}
        /\ EntryExists(data, ret.i)
        /\ HasItems(EntryAt(data, ret.i))
        /\ EntryAt(data, ret.i).lineItems = EmptyMap)
          => /\ Returned(ret.out)
             /\ NumEq(ret.out.val, Zero)
    /\ (/\ Terminated
        /\ EntryExists(data, FirstStandaloneIndex(data))
        /\ HasItems(EntryAt(data, FirstStandaloneIndex(data)))
        /\ EntryAt(data, FirstStandaloneIndex(data)).lineItems = EmptyMap)
          => /\ pc = "done"
             /\ result = [flags |-> [TOTAL_REVENUE_5CR_FLAG |-> RED,
                                     BORROWING_TO_REVENUE_FLAG |-> GREEN,
                                     ISCR_FLAG |-> RED]]

C5_Witness ==
    /\ pc = "done"
    /\ Len(data.financials) = 2
    /\ FirstStandaloneIndex(data) = 1
    /\ data.financials[1].lineItems = GreenItems
    /\ data.financials[2].lineItems = EmptyMap
    /\ result.flags["ISCR_FLAG"] = RED
    /\ result.flags["BORROWING_TO_REVENUE_FLAG"] = GREEN
    /\ result.flags["TOTAL_REVENUE_5CR_FLAG"] = RED

(***************************************************************************)
(* C6                                                                      *)
(***************************************************************************)
\* C6: on an existing entry borrowing_to_revenue_flag returns GREEN exactly
\* when (longTermBorrowings + shortTermBorrowings) / netRevenue <= 0.25, the
\* ratio being 0.0 when netRevenue is 0 or bs is missing, and AMBER
\* otherwise; it never returns RED.
C6_BorrowingFlag ==
    /\ Called("borrowing_to_revenue_flag")
          => /\ Returned(ret.out) => ret.out.val # RED
             /\ EntryExists(data, ret.i)
                   => ret.out = Return(BorrowingFlagOf(EntryAt(data, ret.i)))
    /\ Bound("borrowing_to_revenue_flag_value")
          => locals["borrowing_to_revenue_flag_value"]
                = BorrowingFlagOf(EntryAt(data, FirstStandaloneIndex(data)))

C6_Witness ==
    /\ Called("borrowing_to_revenue_flag")
    /\ EntryExists(data, ret.i)
    /\ HasSection(EntryAt(data, ret.i), "bs")
    /\ BorrowingsOf(EntryAt(data, ret.i)) = 25
    /\ NetRevenueOf(EntryAt(data, ret.i)) = 100
    /\ ret.out = Return(GREEN)

(***************************************************************************)
(* C7                                                                      *)
(***************************************************************************)
\* C7: on an existing entry iscr_flag returns GREEN exactly when
\* (pbitda + 1) / (interestExpenses + 1) >= 2 and RED otherwise, also for
\* negative pbitda; it never returns AMBER.
C7_IscrFlag ==
    Called("iscr_flag") /\ EntryExists(data, ret.i)
        => ret.out = Return(IscrFlagOf(EntryAt(data, ret.i)))

(***************************************************************************)
(* C8                                                                      *)
(***************************************************************************)
\* C8: on an existing entry total_revenue_5cr_flag returns GREEN exactly
\* when the entry's revenue (0 when missing) is >= 50,000,000 and RED
\* otherwise; it never returns AMBER.
C8_RevenueFlag ==
    /\ Called("total_revenue_5cr_flag")
          => /\ Returned(ret.out) => ret.out.val # AMBER
             /\ EntryExists(data, ret.i)
                   => ret.out = Return(RevenueFlagOf(EntryAt(data, ret.i)))
    /\ Bound("total_revenue_5cr_flag_value")
          => locals["total_revenue_5cr_flag_value"]
                = RevenueFlagOf(EntryAt(data, FirstStandaloneIndex(data)))

C8_Witness ==
    /\ Called("total_revenue_5cr_flag")
    /\ EntryExists(data, ret.i)
    /\ NetRevenueOf(EntryAt(data, ret.i)) = 50000000
    /\ ret.out = Return(GREEN)

(***************************************************************************)
(* C9                                                                      *)
(***************************************************************************)
\* C9: a call leaves the record it was given unchanged, and a call on a
\* record ends as the first call on that record ended, whatever records
\* were evaluated in between.
C9_PureAndIdempotent ==
    /\ data = arg
    /\ Terminated /\ seen.set /\ arg = seen.rec
          => /\ exc = seen.exc
             /\ result = seen.result

C9_Witness ==
    /\ pc = "done"
    /\ calls = 3
    /\ seen.set
    /\ seen.other
    /\ arg = seen.rec
    /\ result = seen.result

(***************************************************************************)
(* C10                                                                     *)
(***************************************************************************)
\* C10: for an entry that has both pnl and bs, iscr returns a number for
\* every interestExpenses and pbitda, interestExpenses = -1 included: the
\* division never divides by zero.
C10_IscrNeverDividesByZero ==
    (/\ Called("iscr")
     /\ EntryExists(data, ret.i)
     /\ HasSection(EntryAt(data, ret.i), "pnl")
     /\ HasSection(EntryAt(data, ret.i), "bs"))
        => Returned(ret.out)

====
